---- MODULE Spec2Model ----
(***************************************************************************)
(* Lead-management REST service (src/app.py, src/enums.py): the database   *)
(* (salespersons, leads, salesperson_leads), the per-request ORM session,  *)
(* and the three endpoints /ingest_leads, /leads and /login.               *)
(*                                                                         *)
(* Python values:                                                          *)
(*   - text that the code converts (enum text, Lead ID) is a sequence of   *)
(*     one-character strings, so that replace/upper/int act on it;         *)
(*   - text that is only compared (usernames, passwords) is a string;      *)
(*   - an optional value is a sequence of length <= 1 (<<>> is None);      *)
(*   - a dict is a function on the keys present;                           *)
(*   - a call that can raise returns [raised |-> TRUE, exc |-> ...] or     *)
(*     [raised |-> FALSE, val |-> ...].                                    *)
(***************************************************************************)
EXTENDS Integers, Sequences, FiniteSets, TLC

VARIABLES
    salespersons,       \* table salespersons: sequence of rows, by id
    leads,              \* table leads (committed): sequence of rows, by id
    salesperson_leads,  \* association table (committed): set of <<salesperson_id, lead id>>
    session,            \* db.session: Lead objects added and not yet committed
    pc,                 \* "idle" | "handler" | "teardown": position of the request in flight
    req,                \* the request in flight (NoRequest when idle)
    resp,               \* the response of the request in flight (NoResponse until produced)
    queries,            \* number of SELECTs the request has issued so far
    paginated_leads,    \* get_salesperson_leads' local: <<the Pagination>>, <<>> when unset
    before              \* history: the committed leads and assignments when the request arrived

vars == <<salespersons, leads, salesperson_leads, session, pc, req, resp, queries,
          paginated_leads, before>>

----------------------------------------------------------------------------
(* Bounds of the model *)

\* committed leads never exceed this many
MaxLeads == 3
\* an uploaded CSV has at most this many data rows
MaxRows == 2

----------------------------------------------------------------------------
(* str methods used by the code *)

LowerCase == <<"a","b","c","d","e","f","g","h","i","j","k","l","m",
               "n","o","p","q","r","s","t","u","v","w","x","y","z">>
UpperCase == <<"A","B","C","D","E","F","G","H","I","J","K","L","M",
               "N","O","P","Q","R","S","T","U","V","W","X","Y","Z">>

\* the upper-case letter of each lower-case letter
UpperOf ==
    [c \in { LowerCase[i] : i \in DOMAIN LowerCase } |->
        UpperCase[CHOOSE i \in DOMAIN LowerCase : LowerCase[i] = c]]

UpperChar(c) == IF c \in DOMAIN UpperOf THEN UpperOf[c] ELSE c

\* str.upper()
Upper(s) == [i \in DOMAIN s |-> UpperChar(s[i])]

\* str.replace(" ", "_")
ReplaceSpaces(s) == [i \in DOMAIN s |-> IF s[i] = " " THEN "_" ELSE s[i]]

DigitChars == <<"0","1","2","3","4","5","6","7","8","9">>

RECURSIVE ParseInt(_)
\* the Integer column's value for a text of decimal digits
ParseInt(s) ==
    IF s = <<>> THEN 0
    ELSE 10 * ParseInt(SubSeq(s, 1, Len(s) - 1))
         + (CHOOSE d \in 0..9 : DigitChars[d + 1] = s[Len(s)])

----------------------------------------------------------------------------
(* src/enums.py: a member is [name, value]; an enum is the set of its members *)

Source ==
    { [name |-> <<"C","O","L","D","_","C","A","L","L">>, value |-> "Cold Call"],
      [name |-> <<"E","V","E","N","T">>,                 value |-> "Event"],
      [name |-> <<"R","E","F","E","R","R","A","L">>,     value |-> "Referral"],
      [name |-> <<"W","E","B","S","I","T","E">>,         value |-> "Website"] }

InterestLevel ==
    { [name |-> <<"H","I","G","H">>,         value |-> "High"],
      [name |-> <<"M","E","D","I","U","M">>, value |-> "Medium"],
      [name |-> <<"L","O","W">>,             value |-> "Low"] }

Status ==
    { [name |-> <<"C","L","O","S","E","D">>,             value |-> "Closed"],
      [name |-> <<"C","O","N","T","A","C","T","E","D">>, value |-> "Contacted"],
      [name |-> <<"N","E","W">>,                         value |-> "New"],
      [name |-> <<"Q","U","A","L","I","F","I","E","D">>, value |-> "Qualified"] }

\* enum.__name__
EnumName(enum) ==
    IF enum = Source THEN "Source"
    ELSE IF enum = InterestLevel THEN "InterestLevel" ELSE "Status"

\* enum[key]: the member named key, or KeyError(key)
EnumGetItem(enum, key) ==
    IF \E m \in enum : m.name = key
    THEN [raised |-> FALSE, val |-> CHOOSE m \in enum : m.name = key]
    ELSE [raised |-> TRUE, exc |-> [type |-> "KeyError", arg |-> key]]

----------------------------------------------------------------------------
(* Salesperson: password hashing and lookup *)

\* werkzeug's salted digest, idealised as injective in (salt, password)
HashInternal(salt, password) == <<salt, password>>

\* Salesperson.set_password: generate_password_hash with a fresh salt
GeneratePasswordHash(password, salt) ==
    [salt |-> salt, hashval |-> HashInternal(salt, password)]

\* Salesperson.check_password(password), password an optional string:
\* check_password_hash encodes the password, which raises on None
CheckPassword(salesperson, password) ==
    IF password = <<>>
    THEN [raised |-> TRUE,
          exc |-> [type |-> "AttributeError", arg |-> "NoneType has no attribute encode"]]
    ELSE [raised |-> FALSE,
          val |-> HashInternal(salesperson.password_hash.salt, password[1])
                    = salesperson.password_hash.hashval]

\* Salesperson.query.filter_by(username=username).first(), username an optional
\* string: the row as <<row>>, or <<>> (None) when there is none
QueryFirst(username) ==
    IF username # <<>>
       /\ \E i \in DOMAIN salespersons : salespersons[i].username = username[1]
    THEN << salespersons[CHOOSE i \in DOMAIN salespersons :
                            salespersons[i].username = username[1]] >>
    ELSE <<>>

Roster == <<"Alice", "Diane", "Charlie", "Bob">>
DefaultPassword == "pass123"

\* the elements of a list
Elems(list) == { list[i] : i \in DOMAIN list }

\* dict.get(key): <<value>> or <<>>
DictGet(data, key) == IF key \in DOMAIN data THEN <<data[key]>> ELSE <<>>

\* dict.get(key, default)
DictGetDefault(data, key, default) == IF key \in DOMAIN data THEN data[key] ELSE default

\* jsonify(...), status
Response(status, body) == [status |-> status, body |-> body]

\* str(e)
StrExc(exc) ==
    IF exc.type = "KeyError" THEN <<"'", exc.arg, "'">>
    ELSE IF exc.type = "BadRequestKeyError" THEN <<"400 Bad Request: ", exc.arg>>
    ELSE IF exc.type = "NotFound" THEN <<"404 Not Found">>
    ELSE <<exc.arg>>

----------------------------------------------------------------------------
(* Startup: lines 62-75 *)

\* the salt of the i-th generate_password_hash call, for a seed of the salt stream
SaltOf(seed, i) == seed * Len(Roster) + i

\* the seeds of the salt stream the model draws from
Seeds == {0, 1}

\* the seeded roster: ids in insertion order, every password the default one
SeededSalespersons(seed) ==
    [i \in DOMAIN Roster |->
        [id |-> i,
         username |-> Roster[i],
         password_hash |-> GeneratePasswordHash(DefaultPassword, SaltOf(seed, i))]]

NoRequest == [endpoint |-> "none"]
NoResponse == Response(0, [none |-> TRUE])

Init ==
    /\ \E seed \in Seeds : salespersons = SeededSalespersons(seed)
    /\ leads = <<>>
    /\ salesperson_leads = {}
    /\ session = <<>>
    /\ pc = "idle"
    /\ req = NoRequest
    /\ resp = NoResponse
    /\ queries = 0
    /\ paginated_leads = <<>>
    /\ before = [leads |-> <<>>, salesperson_leads |-> {}]

----------------------------------------------------------------------------
(* The uploaded CSV files the model draws from *)

T_ColdCall   == <<"C","o","l","d"," ","C","a","l","l">>
T_cold_call  == <<"c","o","l","d","_","c","a","l","l">>
T_event      == <<"e","v","e","n","t">>
T_Web        == <<"W","e","b">>
T_High       == <<"H","i","g","h">>
T_low        == <<"l","o","w">>
T_Hot        == <<"H","o","t">>
T_Closed     == <<"C","l","o","s","e","d">>
T_new        == <<"n","e","w">>
T_Open       == <<"O","p","e","n">>

\* one row of csv.DictReader: a dict keyed by the header line
Row(leadId, name, contact, source, interest, status, salesperson) ==
    ("Lead ID" :> leadId) @@ ("Lead Name" :> name) @@ ("Contact Information" :> contact)
    @@ ("Source" :> source) @@ ("Interest Level" :> interest) @@ ("Status" :> status)
    @@ ("Assigned Salesperson" :> salesperson)

RowPool ==
    { Row(<<"7">>,     "Acme", "acme@x.io", T_ColdCall,  T_High, T_Closed, "Alice"),
      Row(<<"1","2">>, "Bolt", "bolt@x.io", T_event,     T_low,  T_Closed, "Bob"),
      Row(<<"7">>,     "Core", "core@x.io", T_cold_call, T_High, T_new,    "Alice"),
      Row(<<"3">>,     "Dune", "dune@x.io", T_event,     T_High, T_Closed, "Mallory"),
      Row(<<"4">>,     "Echo", "echo@x.io", T_Web,       T_Hot,  T_Closed, "Alice"),
      Row(<<"5">>,     "Fuse", "fuse@x.io", T_Web,       T_Hot,  T_Open,   "Mallory"),
      Row(<<"6">>,     "Gale", "gale@x.io", T_event,     T_High, T_Open,   "Bob"),
      Row(<<"8">>,     "Hive", "hive@x.io", T_ColdCall,  T_Hot,  T_Closed, "Bob") }

\* the rows of an upload, in file order
CsvFiles == UNION { [1..n -> RowPool] : n \in 0..MaxRows }

\* request.files: <<rows>> when the field "file" is present, <<>> when it is not
FilesInputs == {<<>>} \cup { <<rows>> : rows \in CsvFiles }

----------------------------------------------------------------------------
(* POST /ingest_leads: lines 94-137 *)

\* NewLead without line 129: the salesperson is never appended
NewLeadUnassigned(row, source, interest_level, status, salesperson) ==
    [lead_id |-> ParseInt(row["Lead ID"]),
     lead_name |-> row["Lead Name"],
     contact_info |-> row["Contact Information"],
     source |-> source,
     interest_level |-> interest_level,
     status |-> status,
     salespersons |-> <<>>]

\* Lead(...) of lines 120-129: the object added to the session
NewLead(row, source, interest_level, status, salesperson) ==
    [lead_id |-> ParseInt(row["Lead ID"]),
     lead_name |-> row["Lead Name"],
     contact_info |-> row["Contact Information"],
     source |-> source,
     interest_level |-> interest_level,
     status |-> status,
     salespersons |-> <<salesperson.id>>]

\* lines 116-118: the three enum lookups of a row, in order; the first KeyError wins
ResolveRowEnums(row) ==
    LET source == EnumGetItem(Source, Upper(ReplaceSpaces(row["Source"])))
        interest_level == EnumGetItem(InterestLevel, Upper(row["Interest Level"]))
        status == EnumGetItem(Status, Upper(row["Status"]))
    IN  IF source.raised THEN source
        ELSE IF interest_level.raised THEN interest_level
        ELSE IF status.raised THEN status
        ELSE [raised |-> FALSE,
              val |-> [source |-> source.val,
                       interest_level |-> interest_level.val,
                       status |-> status.val]]

RECURSIVE ProcessRowsEnumsFirst(_, _, _)
\* ProcessRows with lines 116-118 moved above the salesperson check of line 106
ProcessRowsEnumsFirst(rows, i, pending) ==
    IF i > Len(rows)
    THEN [end |-> "exhausted", pending |-> pending, lookups |-> i - 1]
    ELSE LET row == rows[i]
             salesperson == QueryFirst(<<row["Assigned Salesperson"]>>)
             enums == ResolveRowEnums(row)
         IN  IF enums.raised
             THEN [end |-> "raise", pending |-> pending, lookups |-> i, exc |-> enums.exc]
             ELSE IF salesperson = <<>>
             THEN [end |-> "return", pending |-> pending, lookups |-> i,
                   username |-> row["Assigned Salesperson"]]
             ELSE ProcessRowsEnumsFirst(rows, i + 1,
                     Append(pending,
                            NewLead(row, enums.val.source, enums.val.interest_level,
                                    enums.val.status, salesperson[1])))

RECURSIVE ProcessRows(_, _, _)
\* the for loop of lines 102-130 from row i on, pending the session's new objects:
\* how the loop ends, the session then, and the salesperson lookups issued
ProcessRows(rows, i, pending) ==
    IF i > Len(rows)
    THEN [end |-> "exhausted", pending |-> pending, lookups |-> i - 1]
    ELSE LET row == rows[i]
             salesperson == QueryFirst(<<row["Assigned Salesperson"]>>)
             enums == ResolveRowEnums(row)
         IN  IF salesperson = <<>>
             THEN [end |-> "return", pending |-> pending, lookups |-> i,
                   username |-> row["Assigned Salesperson"]]
             ELSE IF enums.raised
             THEN [end |-> "raise", pending |-> pending, lookups |-> i, exc |-> enums.exc]
             ELSE ProcessRows(rows, i + 1,
                     Append(pending,
                            NewLead(row, enums.val.source, enums.val.interest_level,
                                    enums.val.status, salesperson[1])))

\* db.session.commit(): the new objects become rows, ids in insertion order,
\* each with one association row per salesperson of its relationship
Commit(db, pending) ==
    [leads |-> db.leads \o
               [k \in DOMAIN pending |->
                   [id |-> Len(db.leads) + k,
                    lead_id |-> pending[k].lead_id,
                    lead_name |-> pending[k].lead_name,
                    contact_info |-> pending[k].contact_info,
                    source |-> pending[k].source,
                    interest_level |-> pending[k].interest_level,
                    status |-> pending[k].status]],
     salesperson_leads |-> db.salesperson_leads \cup
               UNION { { <<pending[k].salespersons[j], Len(db.leads) + k>> :
                            j \in DOMAIN pending[k].salespersons } :
                       k \in DOMAIN pending }]

\* the committed tables as one value
Db == [leads |-> leads, salesperson_leads |-> salesperson_leads]

\* SalespersonNotFound committing the rows added so far before it returns
SalespersonNotFoundCommits(loop) ==
    [resp |-> Response(400, [error |-> <<"Salesperson '", loop.username, "' not found">>]),
     db |-> Commit(Db, loop.pending), session |-> <<>>, queries |-> loop.lookups]

\* SalespersonNotFound answering in the shape of the except branch
SalespersonNotFoundWithDetails(loop) ==
    [resp |-> Response(400, [error |-> "Failed to ingest leads",
                             details |-> <<"Salesperson '", loop.username, "' not found">>]),
     db |-> Db, session |-> loop.pending, queries |-> loop.lookups]

\* lines 106-114: the early return of the unknown-salesperson path; no commit,
\* no rollback: the session keeps its new objects until the request is torn down
SalespersonNotFound(loop) ==
    [resp |-> Response(400, [error |-> <<"Salesperson '", loop.username, "' not found">>]),
     db |-> Db, session |-> loop.pending, queries |-> loop.lookups]

\* lines 135-137: rollback, then the 400 with the exception's text
IngestExcept(exc, lookups) ==
    [resp |-> Response(400, [error |-> "Failed to ingest leads", details |-> StrExc(exc)]),
     db |-> Db, session |-> <<>>, queries |-> lookups]

\* lines 132-133: commit, then the 201
IngestCommit(loop) ==
    [resp |-> Response(201, [message |-> "Leads ingested successfully!"]),
     db |-> Commit(Db, loop.pending), session |-> <<>>, queries |-> loop.lookups]

\* the body of ingest_leads for request.files = files
IngestLeadsBody(files) ==
    IF files = <<>>
    THEN IngestExcept([type |-> "BadRequestKeyError", arg |-> "file"], 0)
    ELSE LET loop == ProcessRows(files[1], 1, session)
         IN  IF loop.end = "return" THEN SalespersonNotFound(loop)
             ELSE IF loop.end = "raise" THEN IngestExcept(loop.exc, loop.lookups)
             ELSE IngestCommit(loop)

IngestLeads(files) ==
    /\ pc = "idle"
    /\ files # <<>> => Len(leads) + Len(files[1]) <= MaxLeads
    /\ \E r \in {IngestLeadsBody(files)} :
           /\ resp' = r.resp
           /\ leads' = r.db.leads
           /\ salesperson_leads' = r.db.salesperson_leads
           /\ session' = r.session
           /\ queries' = r.queries
    /\ req' = [endpoint |-> "/ingest_leads", files |-> files]
    /\ before' = Db
    /\ pc' = "teardown"
    /\ paginated_leads' = <<>>
    /\ UNCHANGED salespersons

----------------------------------------------------------------------------
(* End of request: Flask-SQLAlchemy's teardown, registered by SQLAlchemy(app) *)

\* SessionRemove committing instead of discarding (commit on teardown)
SessionRemoveCommits(db, pending) == [db |-> Commit(db, pending), session |-> <<>>]

\* session.remove(): the session is closed, its uncommitted objects are
\* discarded and the committed tables stay as they are
SessionRemove(db, pending) == [db |-> db, session |-> <<>>]

ShutdownSession ==
    /\ pc = "teardown"
    /\ \E r \in {SessionRemove(Db, session)} :
           /\ leads' = r.db.leads
           /\ salesperson_leads' = r.db.salesperson_leads
           /\ session' = r.session
    /\ pc' = "idle"
    /\ req' = NoRequest
    /\ resp' = NoResponse
    /\ queries' = 0
    /\ paginated_leads' = <<>>
    /\ before' = [leads |-> leads', salesperson_leads |-> salesperson_leads']
    /\ UNCHANGED salespersons

----------------------------------------------------------------------------
(* The requests to /leads and /login the model draws from *)

\* a dict with key k when opt is <<v>>, the empty dict when opt is <<>>
Field(k, opt) == IF opt = <<>> THEN <<>> ELSE (k :> opt[1])

SourceFilterInputs ==
    { <<>>, << <<>> >>, << <<T_ColdCall>> >>, << <<T_event, T_cold_call>> >>,
      << <<T_ColdCall, T_Web>> >> }
InterestFilterInputs == { <<>>, << <<T_High>> >>, << <<T_Hot>> >> }
StatusFilterInputs == { <<>>, << <<T_Closed>> >>, << <<T_Open>> >> }
PageInputs == { <<>>, <<1>>, <<2>>, <<3>> }
PerPageInputs == { <<>>, <<1>>, <<2>> }

\* request.get_json() of /leads: <<dict>>, or <<>> when the body is not JSON
LeadsJsonInputs ==
    {<<>>} \cup
    { << Field("source", so) @@ Field("interest_level", il) @@ Field("status", st)
         @@ Field("page", pg) @@ Field("per_page", pp) >> :
        so \in SourceFilterInputs, il \in InterestFilterInputs, st \in StatusFilterInputs,
        pg \in PageInputs, pp \in PerPageInputs }

\* request.authorization: <<[username, password]>>, or <<>> when there is no Basic header
AuthInputs ==
    {<<>>} \cup
    { <<[username |-> u, password |-> p]>> :
        u \in {"Alice", "Bob", "Mallory", ""}, p \in {"pass123", "wrong", ""} }

\* request.get_json() of /login: <<dict>>, or <<>> when the body is not JSON
LoginJsonInputs ==
    {<<>>} \cup
    { << Field("username", u) @@ Field("password", p) >> :
        u \in { <<>>, <<"Alice">>, <<"Bob">>, <<"Mallory">> },
        p \in { <<>>, <<"pass123">>, <<"wrong">> } }

----------------------------------------------------------------------------
(* basic_auth_required: lines 79-90 *)

\* Authenticate without the check_password call of line 86
AuthenticateNoPasswordCheck(auth) ==
    IF auth = <<>> \/ auth[1].username = "" \/ auth[1].password = ""
    THEN [pass |-> FALSE, queries |-> 0,
          resp |-> Response(401, [error |-> "Authentication required"])]
    ELSE LET salesperson == QueryFirst(<<auth[1].username>>)
         IN  IF salesperson = <<>>
             THEN [pass |-> FALSE, queries |-> 1,
                   resp |-> Response(401, [error |-> "Invalid credentials"])]
             ELSE [pass |-> TRUE, queries |-> 1, salesperson |-> salesperson[1]]

\* decorated_function up to the call of f: either a 401, or the salesperson f is
\* called with; queries counts the SELECTs issued
Authenticate(auth) ==
    IF auth = <<>> \/ auth[1].username = "" \/ auth[1].password = ""
    THEN [pass |-> FALSE, queries |-> 0,
          resp |-> Response(401, [error |-> "Authentication required"])]
    ELSE LET salesperson == QueryFirst(<<auth[1].username>>)
         IN  IF salesperson = <<>>
                \/ ~CheckPassword(salesperson[1], <<auth[1].password>>).val
             THEN [pass |-> FALSE, queries |-> 1,
                   resp |-> Response(401, [error |-> "Invalid credentials"])]
             ELSE [pass |-> TRUE, queries |-> 1, salesperson |-> salesperson[1]]

BasicAuthRequired(auth) ==
    /\ pc = "idle"
    /\ \E a \in {Authenticate(auth)} :
           /\ queries' = a.queries
           /\ IF a.pass
              THEN /\ pc' = "handler"
                   /\ req' = [endpoint |-> "/leads", auth |-> auth,
                              salesperson |-> a.salesperson]
                   /\ resp' = NoResponse
              ELSE /\ pc' = "teardown"
                   /\ req' = [endpoint |-> "/leads", auth |-> auth]
                   /\ resp' = a.resp
    /\ before' = Db
    /\ paginated_leads' = <<>>
    /\ UNCHANGED <<salespersons, leads, salesperson_leads, session>>

----------------------------------------------------------------------------
(* POST /leads: lines 141-198 *)

DefaultPage == 1
DefaultPerPage == 10

\* get_enum_value: the member, or ValueError naming the enum and the value
get_enum_value(enum, value) ==
    LET r == EnumGetItem(enum, Upper(ReplaceSpaces(value)))
    IN  IF r.raised
        THEN [raised |-> TRUE,
              exc |-> [type |-> "ValueError",
                       arg |-> <<"Invalid value for ", EnumName(enum), ": ", value>>]]
        ELSE r

\* ResolveAll dropping the values that do not resolve instead of raising
ResolveAllSkipInvalid(enum, values) ==
    LET Resolves(v) == ~get_enum_value(enum, v).raised
        kept == SelectSeq(values, Resolves)
    IN  [raised |-> FALSE, val |-> [i \in DOMAIN kept |-> get_enum_value(enum, kept[i]).val]]

\* [get_enum_value(enum, v) for v in values]: the list of members, or the
\* ValueError of the first value that does not resolve
ResolveAll(enum, values) ==
    IF \E i \in DOMAIN values : get_enum_value(enum, values[i]).raised
    THEN get_enum_value(enum,
             values[CHOOSE i \in DOMAIN values :
                       /\ get_enum_value(enum, values[i]).raised
                       /\ \A j \in 1..(i - 1) : ~get_enum_value(enum, values[j]).raised])
    ELSE [raised |-> FALSE, val |-> [i \in DOMAIN values |-> get_enum_value(enum, values[i]).val]]

\* AssignedTo without the join of lines 159-161: every lead
AssignedToAnyone(salesperson) == leads

\* lines 159-161: the leads joined to the salesperson's association rows, by id
AssignedTo(salesperson) ==
    LET Joined(lead) == <<salesperson.id, lead.id>> \in salesperson_leads
    IN  SelectSeq(leads, Joined)

\* query.filter(column.in_(members)) on a field of Lead
FilterIn(query, field, members) ==
    LET Keep(lead) == lead[field] \in Elems(members)
    IN  SelectSeq(query, Keep)

\* lines 163-176: one "if values: query = query.filter(...)" step
ApplyFilter(query, field, enum, values) ==
    IF query.raised \/ values = <<>> THEN query
    ELSE LET members == ResolveAll(enum, values)
         IN  IF members.raised THEN members
             ELSE [raised |-> FALSE, val |-> FilterIn(query.val, field, members.val)]

\* Paginate counting full pages only (floor instead of ceiling)
PaginateFloor(query, page, per_page) ==
    LET total == Len(query)
        first == (page - 1) * per_page + 1
        last  == IF page * per_page < total THEN page * per_page ELSE total
        items == SubSeq(query, first, last)
    IN  IF page < 1 \/ per_page < 1 \/ (items = <<>> /\ page # 1)
        THEN [raised |-> TRUE, exc |-> [type |-> "NotFound", arg |-> "404"]]
        ELSE [raised |-> FALSE,
              val |-> [items |-> items, pages |-> total \div per_page, total |-> total]]

\* query.paginate(page=page, per_page=per_page): 404 for a page or page size below
\* one, and for an empty page other than the first; else the page's items, the
\* page count and the total
Paginate(query, page, per_page) ==
    LET total == Len(query)
        first == (page - 1) * per_page + 1
        last  == IF page * per_page < total THEN page * per_page ELSE total
        items == SubSeq(query, first, last)
    IN  IF page < 1 \/ per_page < 1 \/ (items = <<>> /\ page # 1)
        THEN [raised |-> TRUE, exc |-> [type |-> "NotFound", arg |-> "404"]]
        ELSE [raised |-> FALSE,
              val |-> [items |-> items,
                       pages |-> IF total = 0 THEN 0
                                 ELSE (total + per_page - 1) \div per_page,
                       total |-> total]]

\* lines 183-190: the JSON object of one lead, enum fields by their labels
SerializeLead(lead) ==
    [lead_id |-> lead.lead_id,
     lead_name |-> lead.lead_name,
     contact_info |-> lead.contact_info,
     source |-> lead.source.value,
     interest_level |-> lead.interest_level.value,
     status |-> lead.status.value]

\* lines 197-198
LeadsExcept(exc, issued) ==
    [resp |-> Response(400, [error |-> "Failed to retrieve leads", details |-> StrExc(exc)]),
     paginated_leads |-> <<>>, queries |-> issued]

\* the body of get_salesperson_leads(salesperson) for request.get_json() = json
GetSalespersonLeadsBody(salesperson, json) ==
    IF json = <<>>
    THEN LeadsExcept([type |-> "UnsupportedMediaType", arg |-> "415 Unsupported Media Type"], 0)
    ELSE LET data == json[1]
             sources == DictGetDefault(data, "source", <<>>)
             interest_levels == DictGetDefault(data, "interest_level", <<>>)
             statuses == DictGetDefault(data, "status", <<>>)
             page == DictGetDefault(data, "page", DefaultPage)
             per_page == DictGetDefault(data, "per_page", DefaultPerPage)
             q0 == [raised |-> FALSE, val |-> AssignedTo(salesperson)]
             q1 == ApplyFilter(q0, "source", Source, sources)
             q2 == ApplyFilter(q1, "interest_level", InterestLevel, interest_levels)
             q3 == ApplyFilter(q2, "status", Status, statuses)
             pg == Paginate(q3.val, page, per_page)
         IN  IF q3.raised THEN LeadsExcept(q3.exc, 0)
             ELSE IF pg.raised THEN LeadsExcept(pg.exc, 1)
             ELSE [resp |-> Response(200,
                      [leads |-> [i \in DOMAIN pg.val.items |-> SerializeLead(pg.val.items[i])],
                       total_pages |-> pg.val.pages,
                       total_leads |-> pg.val.total]),
                   paginated_leads |-> <<pg.val>>,
                   queries |-> 2]

GetSalespersonLeads(json) ==
    /\ pc = "handler"
    /\ \E r \in {GetSalespersonLeadsBody(req.salesperson, json)} :
           /\ resp' = r.resp
           /\ paginated_leads' = r.paginated_leads
           /\ queries' = queries + r.queries
    /\ req' = [req EXCEPT !.endpoint = "/leads"] @@ [json |-> json]
    /\ pc' = "teardown"
    /\ UNCHANGED <<salespersons, leads, salesperson_leads, session, before>>

----------------------------------------------------------------------------
(* POST /login: lines 202-213 *)

\* the body of login for request.get_json() = json
LoginBody(json) ==
    IF json = <<>>
    THEN [resp |-> Response(400, [error |-> "Failed to login",
                                  details |-> <<"415 Unsupported Media Type">>]),
          queries |-> 0]
    ELSE LET username == DictGet(json[1], "username")
             password == DictGet(json[1], "password")
             salesperson == QueryFirst(username)
             check == CheckPassword(salesperson[1], password)
         IN  IF salesperson = <<>>
             THEN [resp |-> Response(401, [error |-> "Invalid credentials"]), queries |-> 1]
             ELSE IF check.raised
             THEN [resp |-> Response(400, [error |-> "Failed to login",
                                           details |-> StrExc(check.exc)]),
                   queries |-> 1]
             ELSE IF ~check.val
             THEN [resp |-> Response(401, [error |-> "Invalid credentials"]), queries |-> 1]
             ELSE [resp |-> Response(200, [message |-> "Login successful"]), queries |-> 1]

Login(json) ==
    /\ pc = "idle"
    /\ \E r \in {LoginBody(json)} :
           /\ resp' = r.resp
           /\ queries' = r.queries
    /\ req' = [endpoint |-> "/login", json |-> json]
    /\ before' = Db
    /\ pc' = "teardown"
    /\ paginated_leads' = <<>>
    /\ UNCHANGED <<salespersons, leads, salesperson_leads, session>>

----------------------------------------------------------------------------

Next ==
    \/ \E files \in FilesInputs : IngestLeads(files)
    \/ \E auth \in AuthInputs : BasicAuthRequired(auth)
    \/ \E json \in LeadsJsonInputs : GetSalespersonLeads(json)
    \/ \E json \in LoginJsonInputs : Login(json)
    \/ ShutdownSession

Spec == Init /\ [][Next]_vars

----------------------------------------------------------------------------
(* What the requests of the model are expected to mean, written out by hand *)

KnownUsername(u) == u \in Elems(Roster)
SalespersonIdOf(u) == CHOOSE i \in DOMAIN Roster : Roster[i] = u

\* the label of the member each resolvable text of the model stands for
SourceLabelOf == (T_ColdCall :> "Cold Call") @@ (T_cold_call :> "Cold Call") @@ (T_event :> "Event")
InterestLabelOf == (T_High :> "High") @@ (T_low :> "Low")
StatusLabelOf == (T_Closed :> "Closed") @@ (T_new :> "New")

\* the key each unresolvable text of the model is looked up under
KeyOfInvalid ==
    (T_Web :> <<"W","E","B">>) @@ (T_Hot :> <<"H","O","T">>) @@ (T_Open :> <<"O","P","E","N">>)

\* the integer each Lead ID text of the model denotes
LeadIdOf ==
    (<<"7">> :> 7) @@ (<<"1","2">> :> 12) @@ (<<"3">> :> 3) @@ (<<"4">> :> 4)
    @@ (<<"5">> :> 5) @@ (<<"6">> :> 6) @@ (<<"8">> :> 8)

RowEnumsFail(row) ==
    \/ row["Source"] \notin DOMAIN SourceLabelOf
    \/ row["Interest Level"] \notin DOMAIN InterestLabelOf
    \/ row["Status"] \notin DOMAIN StatusLabelOf

RowFails(row) == ~KnownUsername(row["Assigned Salesperson"]) \/ RowEnumsFail(row)

AnyRowFails(rows) == \E i \in DOMAIN rows : RowFails(rows[i])

FirstFailing(rows) ==
    CHOOSE i \in DOMAIN rows : RowFails(rows[i]) /\ \A j \in 1..(i - 1) : ~RowFails(rows[j])

\* the text of the first enum field of a row that does not resolve, in the
\* order Source, Interest Level, Status
FirstInvalidText(row) ==
    IF row["Source"] \notin DOMAIN SourceLabelOf THEN row["Source"]
    ELSE IF row["Interest Level"] \notin DOMAIN InterestLabelOf THEN row["Interest Level"]
    ELSE row["Status"]

\* the response of POST /ingest_leads has been produced
IngestDone == pc = "teardown" /\ req.endpoint = "/ingest_leads"

\* ... for an upload with a failing row
IngestFailed == IngestDone /\ req.files # <<>> /\ AnyRowFails(req.files[1])

\* ... on the unknown-salesperson path
IngestUnknownSalesperson ==
    /\ IngestFailed
    /\ ~KnownUsername(req.files[1][FirstFailing(req.files[1])]["Assigned Salesperson"])

----------------------------------------------------------------------------
(* C1 *)

\* C1: POST /ingest_leads is all-or-nothing. When any row of the upload fails,
\* the response is a 400, the committed leads and assignments are those of
\* before the request, and the step that ends the request leaves them so and
\* leaves the session empty; on the unknown-salesperson path as on the
\* exception path, also when valid rows preceded the failing one.
C1_AllOrNothing ==
    [][ IngestFailed =>
          /\ resp.status = 400
          /\ leads = before.leads
          /\ salesperson_leads = before.salesperson_leads
          /\ pc' = "idle"
          /\ leads' = before.leads
          /\ salesperson_leads' = before.salesperson_leads
          /\ session' = <<>> ]_vars

\* a failed upload on the unknown-salesperson path, valid rows before the
\* failing one still in the session, over a database that already holds leads
C1_Witness ==
    /\ IngestUnknownSalesperson
    /\ session # <<>>
    /\ before.leads # <<>>

----------------------------------------------------------------------------
(* C2 *)

\* C2: an upload whose rows all name a known salesperson and carry resolvable
\* enum text is answered 201 and adds exactly one lead per row, in file order,
\* each with the row's fields, the enum members its texts stand for and one
\* assignment, to the row's salesperson; the leads and assignments of before
\* the request are unchanged and nothing else is added.
C2_OneLeadPerRow ==
    (IngestDone /\ req.files # <<>> /\ ~AnyRowFails(req.files[1])) =>
        LET rows == req.files[1]
            n == Len(rows)
            old == Len(before.leads)
        IN  /\ resp.status = 201
            /\ Len(leads) = old + n
            /\ SubSeq(leads, 1, old) = before.leads
            /\ \A k \in 1..n :
                  LET lead == leads[old + k]
                      row == rows[k]
                  IN  /\ lead.id = old + k
                      /\ lead.lead_id = LeadIdOf[row["Lead ID"]]
                      /\ lead.lead_name = row["Lead Name"]
                      /\ lead.contact_info = row["Contact Information"]
                      /\ lead.source \in Source
                      /\ lead.source.value = SourceLabelOf[row["Source"]]
                      /\ lead.interest_level \in InterestLevel
                      /\ lead.interest_level.value = InterestLabelOf[row["Interest Level"]]
                      /\ lead.status \in Status
                      /\ lead.status.value = StatusLabelOf[row["Status"]]
                      /\ { sp \in DOMAIN salespersons : <<sp, lead.id>> \in salesperson_leads }
                            = { SalespersonIdOf(row["Assigned Salesperson"]) }
            /\ { a \in salesperson_leads : a[2] <= old } = before.salesperson_leads
            /\ Cardinality(salesperson_leads) = Cardinality(before.salesperson_leads) + n

\* a successful upload of two rows with the same Lead ID over a database that
\* already holds a lead
C2_Witness ==
    /\ IngestDone
    /\ resp.status = 201
    /\ req.files # <<>>
    /\ Len(req.files[1]) = 2
    /\ req.files[1][1]["Lead ID"] = req.files[1][2]["Lead ID"]
    /\ before.leads # <<>>
    /\ Len(leads) = Len(before.leads) + 2

----------------------------------------------------------------------------
(* C3 *)

\* C3 as stated: every response of POST /ingest_leads is a 201 with a message,
\* or a 400 whose body has both an error and a details field.
C3_ErrorAndDetails ==
    IngestDone =>
        \/ resp.status = 201 /\ "message" \in DOMAIN resp.body
        \/ resp.status = 400 /\ {"error", "details"} \subseteq DOMAIN resp.body

\* C3 amended: every response of POST /ingest_leads is a 201 with a message or
\* a 400 with an error field; the 400 has a details field as well exactly when
\* the request failed by an exception (missing file field, unresolvable enum
\* text), and only the error field on the unknown-salesperson path.
C3_ErrorAlwaysDetailsOnException ==
    IngestDone =>
        \/ /\ resp.status = 201
           /\ DOMAIN resp.body = {"message"}
           /\ req.files # <<>> /\ ~AnyRowFails(req.files[1])
        \/ /\ resp.status = 400
           /\ DOMAIN resp.body = {"error"}
           /\ IngestUnknownSalesperson
        \/ /\ resp.status = 400
           /\ DOMAIN resp.body = {"error", "details"}
           /\ req.files = <<>> \/ IngestFailed
           /\ ~IngestUnknownSalesperson

\* a 400 of the unknown-salesperson path: no details field
C3_Witness ==
    /\ IngestUnknownSalesperson
    /\ resp.status = 400
    /\ "details" \notin DOMAIN resp.body

----------------------------------------------------------------------------
(* C10 *)

\* C10: rows are processed in file order up to the first failing row. The 400
\* reports that row: the username when its salesperson is unknown, also when
\* its enum text is invalid too, and else the key of its first unresolvable
\* enum text; exactly the rows up to it have been looked up, none after it, and
\* the session holds exactly the rows before it.
C10_FirstFailingRowReported ==
    IngestFailed =>
        LET rows == req.files[1]
            k == FirstFailing(rows)
        IN  /\ resp.status = 400
            /\ queries = k
            /\ IF KnownUsername(rows[k]["Assigned Salesperson"])
               THEN /\ DOMAIN resp.body = {"error", "details"}
                    /\ resp.body.details = <<"'", KeyOfInvalid[FirstInvalidText(rows[k])], "'">>
                    /\ session = <<>>
               ELSE /\ DOMAIN resp.body = {"error"}
                    /\ resp.body.error
                          = <<"Salesperson '", rows[k]["Assigned Salesperson"], "' not found">>
                    /\ Len(session) = k - 1

\* the second row fails, its salesperson unknown and its enum text invalid,
\* after a valid first row
C10_Witness ==
    /\ IngestFailed
    /\ FirstFailing(req.files[1]) = 2
    /\ ~KnownUsername(req.files[1][2]["Assigned Salesperson"])
    /\ RowEnumsFail(req.files[1][2])
    /\ queries = 2

----------------------------------------------------------------------------
(* What a request to /leads is expected to mean *)

\* get_salesperson_leads has run and produced its response
LeadsDone == pc = "teardown" /\ req.endpoint = "/leads" /\ "json" \in DOMAIN req

\* ... a 200
LeadsOk == LeadsDone /\ resp.status = 200

\* the filter list the body carries under key, absent meaning empty
FilterTexts(key) == IF key \in DOMAIN req.json[1] THEN req.json[1][key] ELSE <<>>

\* label is allowed by the filter list texts, read through table
Allows(texts, table, label) ==
    \/ texts = <<>>
    \/ \E i \in DOMAIN texts : texts[i] \in DOMAIN table /\ table[texts[i]] = label

PassesFilters(lead) ==
    /\ Allows(FilterTexts("source"), SourceLabelOf, lead.source.value)
    /\ Allows(FilterTexts("interest_level"), InterestLabelOf, lead.interest_level.value)
    /\ Allows(FilterTexts("status"), StatusLabelOf, lead.status.value)

\* the authenticated salesperson's id, from the credentials
AuthId == SalespersonIdOf(req.auth[1].username)

AssignedToAuth(lead) == <<AuthId, lead.id>> \in salesperson_leads

Matches(lead) == AssignedToAuth(lead) /\ PassesFilters(lead)

ExpectedMatching == { lead \in Elems(leads) : Matches(lead) }

ExpectedMatchingSeq == SelectSeq(leads, Matches)

\* the filter values of the body that do not resolve, each with its enum's name
InvalidFilterValues ==
    { <<"Source", v>> : v \in Elems(FilterTexts("source")) \ DOMAIN SourceLabelOf }
    \cup { <<"InterestLevel", v>> :
              v \in Elems(FilterTexts("interest_level")) \ DOMAIN InterestLabelOf }
    \cup { <<"Status", v>> : v \in Elems(FilterTexts("status")) \ DOMAIN StatusLabelOf }

----------------------------------------------------------------------------
(* C4 *)

\* C4: a successful POST /leads by salesperson S selects exactly the leads
\* assigned to S whose source, interest level and status each equal one of the
\* members named by that field's filter list, an absent or empty list allowing
\* every value: the total is their number, every returned lead is one of them
\* (so none assigned only to others), and a page holding the total holds all.
C4_ExactlyTheMatchingLeads ==
    LeadsOk =>
        LET page == paginated_leads[1]
        IN  /\ page.total = Cardinality(ExpectedMatching)
            /\ resp.body.total_leads = Cardinality(ExpectedMatching)
            /\ Elems(page.items) \subseteq ExpectedMatching
            /\ Cardinality(Elems(page.items)) = Len(page.items)
            /\ Len(page.items) = page.total => Elems(page.items) = ExpectedMatching
            /\ Len(resp.body.leads) = Len(page.items)
            /\ \A i \in DOMAIN page.items :
                  resp.body.leads[i] =
                      [lead_id |-> page.items[i].lead_id,
                       lead_name |-> page.items[i].lead_name,
                       contact_info |-> page.items[i].contact_info,
                       source |-> page.items[i].source.value,
                       interest_level |-> page.items[i].interest_level.value,
                       status |-> page.items[i].status.value]

\* a filtered query that returns a lead, leaves out a lead of S that the
\* filters reject, while a lead of another salesperson passes the filters
C4_Witness ==
    /\ LeadsOk
    /\ FilterTexts("source") # <<>>
    /\ FilterTexts("status") # <<>>
    /\ resp.body.leads # <<>>
    /\ \E lead \in Elems(leads) : AssignedToAuth(lead) /\ ~PassesFilters(lead)
    /\ \E lead \in Elems(leads) : ~AssignedToAuth(lead) /\ PassesFilters(lead)

----------------------------------------------------------------------------
(* C5 *)

\* the page number and page size of the request, defaults 1 and 10
RequestedPage == IF "page" \in DOMAIN req.json[1] THEN req.json[1]["page"] ELSE 1
RequestedPerPage == IF "per_page" \in DOMAIN req.json[1] THEN req.json[1]["per_page"] ELSE 10

\* the request's body with its page set to q
JsonWithPage(q) ==
    << [k \in DOMAIN req.json[1] \cup {"page"} |-> IF k = "page" THEN q ELSE req.json[1][k]] >>

RECURSIVE PagesUpTo(_)
\* the items of pages 1..n of the request's query, one after the other
PagesUpTo(n) ==
    IF n = 0 THEN <<>>
    ELSE PagesUpTo(n - 1)
         \o GetSalespersonLeadsBody(req.salesperson, JsonWithPage(n)).paginated_leads[1].items

----------------------------------------------------------------------------
(* C6 *)

MissingCredentials(auth) == auth = <<>> \/ auth[1].username = "" \/ auth[1].password = ""

ValidCredentials(auth) ==
    /\ auth # <<>>
    /\ KnownUsername(auth[1].username)
    /\ auth[1].password = DefaultPassword

\* C6: the authentication gate of POST /leads runs before the handler. Without
\* credentials (or with an empty username or password) the answer is 401 with
\* no query issued and the database as it was; with an unknown username or a
\* wrong password the answer is 401; in both cases the handler has not run; and
\* the handler is entered, and has run, only with the salesperson whose
\* username and password matched.
C6_AuthGateBeforeHandler ==
    /\ (pc = "teardown" /\ req.endpoint = "/leads" /\ MissingCredentials(req.auth)) =>
          /\ resp.status = 401
          /\ queries = 0
          /\ Db = before
          /\ session = <<>>
    /\ (pc = "teardown" /\ req.endpoint = "/leads" /\ ~ValidCredentials(req.auth)) =>
          /\ resp.status = 401
          /\ "json" \notin DOMAIN req
          /\ "salesperson" \notin DOMAIN req
          /\ paginated_leads = <<>>
    /\ (req.endpoint = "/leads" /\ (pc = "handler" \/ "json" \in DOMAIN req)) =>
          /\ ValidCredentials(req.auth)
          /\ req.salesperson = salespersons[SalespersonIdOf(req.auth[1].username)]
          /\ req.salesperson.username = req.auth[1].username

\* a known username with a wrong password, answered 401
C6_Witness ==
    /\ pc = "teardown"
    /\ req.endpoint = "/leads"
    /\ req.auth # <<>>
    /\ KnownUsername(req.auth[1].username)
    /\ req.auth[1].password = "wrong"
    /\ resp.status = 401

----------------------------------------------------------------------------
(* C7 *)

\* the username of a /login body names a seeded salesperson
LoginKnown(json) == "username" \in DOMAIN json[1] /\ KnownUsername(json[1]["username"])

\* C7: POST /login answers 200 when the username exists and the password
\* matches, 401 when the password is wrong or the username is unknown, and a
\* failed login gets the same status and body as any failed login that differs
\* from it only in whether its username exists.
C7_LoginNeverRevealsUsername ==
    (pc = "teardown" /\ req.endpoint = "/login" /\ req.json # <<>>) =>
        LET password == DictGet(req.json[1], "password")
        IN  /\ (LoginKnown(req.json) /\ password = <<DefaultPassword>>) => resp.status = 200
            /\ (~LoginKnown(req.json) \/ password \notin {<<>>, <<DefaultPassword>>}) =>
                  resp.status = 401
            /\ resp.status # 200 =>
                  \A other \in LoginJsonInputs \ {<<>>} :
                      ( /\ DictGet(other[1], "password") = password
                        /\ LoginKnown(other) # LoginKnown(req.json)
                        /\ LoginBody(other).resp.status # 200 )
                      => LoginBody(other).resp = resp

----------------------------------------------------------------------------
(* C8 *)

\* C8: a POST /leads by an authenticated salesperson with a filter value that
\* does not resolve is answered 400 with an error and a message naming an
\* unresolvable value and its enum, with no leads, no page and no total, and
\* with the database as it was, whatever the other filters would match.
C8_InvalidFilterRejected ==
    (LeadsDone /\ req.json # <<>> /\ InvalidFilterValues # {}) =>
        /\ resp.status = 400
        /\ DOMAIN resp.body = {"error", "details"}
        /\ \E iv \in InvalidFilterValues :
              resp.body.details = << <<"Invalid value for ", iv[1], ": ", iv[2]>> >>
        /\ paginated_leads = <<>>
        /\ Db = before
        /\ session = <<>>

\* an unresolvable status beside a source filter that matches a lead of S
C8_Witness ==
    /\ LeadsDone
    /\ req.json # <<>>
    /\ Elems(FilterTexts("status")) \ DOMAIN StatusLabelOf # {}
    /\ FilterTexts("source") # <<>>
    /\ Elems(FilterTexts("source")) \subseteq DOMAIN SourceLabelOf
    /\ \E lead \in Elems(leads) :
          /\ AssignedToAuth(lead)
          /\ Allows(FilterTexts("source"), SourceLabelOf, lead.source.value)
    /\ resp.status = 400

----------------------------------------------------------------------------
(* C9 *)

\* C9: stored leads are only ever added, and only by a successful
\* /ingest_leads. Every step keeps the roster, keeps every stored lead with its
\* fields, in place, and keeps its assignments; a step that changes the leads
\* or the assignments is an /ingest_leads step answering 201, so no step of
\* /leads or /login, nor the end of any request, changes them.
C9_LeadsOnlyAddedByIngest ==
    [][ /\ salespersons' = salespersons
        /\ Len(leads') >= Len(leads)
        /\ SubSeq(leads', 1, Len(leads)) = leads
        /\ salesperson_leads \subseteq salesperson_leads'
        /\ \A a \in salesperson_leads' \ salesperson_leads : a[2] > Len(leads)
        /\ (leads' # leads \/ salesperson_leads' # salesperson_leads) =>
              /\ pc = "idle"
              /\ pc' = "teardown"
              /\ req'.endpoint = "/ingest_leads"
              /\ resp'.status = 201 ]_vars

\* a /leads request that returned stored leads
C9_Witness ==
    /\ LeadsOk
    /\ resp.body.leads # <<>>
    /\ leads # <<>>

====
